---- MODULE Spec2Model ----
(***************************************************************************)
(* Model of pilot-code/pilot.py (Pilot X, the dask pilot bootstrap).       *)
(*                                                                         *)
(* Three specifications share the module:                                  *)
(*   Spec      the __main__ driver, run once from every environment        *)
(*   SpecFile  write_file / open_file called repeatedly on one path        *)
(*   SpecEnv   setenv called on the process environment                    *)
(*                                                                         *)
(* Python values: a str is a TLA+ string, None is the reserved string      *)
(* None (never an environment value), a dict is a function whose DOMAIN    *)
(* is the set of its keys.  File contents are sequences of characters.     *)
(***************************************************************************)
EXTENDS Integers, Sequences, FiniteSets, TLC

VARIABLES environ,        \* os.environ: dict name -> str
          scheduler,      \* what Client(host) does: "ok", "falsy" or "raises"
          wget,           \* whether Popen can spawn wget: "spawns" or "nospawn"
          logfile,        \* whether pilotx.stdout can be opened: "writable" or "unwritable"
          pc,             \* position of the __main__ driver
          required_vars,  \* the dict returned by get_required_vars_dict
          proc,           \* what the driver process has done so far
          fs,             \* the file at the path given to write_file
          handles,        \* number of file objects open on that path
          call,           \* the last write_file call and what it did
          hist,           \* the write_file calls made so far, while all returned True
          envcall         \* the last setenv call

vars == <<environ, scheduler, wget, logfile, pc, required_vars, proc,
          fs, handles, call, hist, envcall>>

----------------------------------------------------------------------------
(* Bounds *)

NumValues == 2      \* non-empty sample strings an environment variable may hold
MaxContents == 1    \* longest contents argument of write_file
MaxCalls == 3       \* write_file calls per run
MaxVars == 2        \* entries of the dict passed to setenv

----------------------------------------------------------------------------
(* Python values *)

None == "<None>"

SampleValues == <<"tcp://127.0.0.1:8786", "/mnt/dask", "123", "456", "x">>

\* the strings an environment variable may hold, the empty string included
Values == {""} \cup {SampleValues[i] : i \in 1..NumValues}

EnvNames == {"DASK_SCHEDULER_IP", "DASK_SHARED_FILESYSTEM_PATH", "PANDA_ID",
             "DASK_USERCODE_URL"}

\* every dict from some of the names to values
Dicts(names, values) == UNION {[S -> values] : S \in SUBSET names}

\* Python truthiness of a str or None ("if _value:", "not host")
Truthy(x) == x /= None /\ x /= ""

\* dict.get(key, default), os.environ.get, os.getenv
Get(d, key, default) == IF key \in DOMAIN d THEN d[key] ELSE default

\* os.environ[var] = value: a str is stored, anything else raises TypeError
environ_setitem(env, var, value) ==
    IF value = None
    THEN [env |-> env, raised |-> TRUE]
    ELSE [env |-> [k \in DOMAIN env \cup {var} |-> IF k = var THEN value ELSE env[k]],
          raised |-> FALSE]

----------------------------------------------------------------------------
(* Module constants, pilot.py lines 20-23 *)

ERROR_UNSET_ENVVAR == 1
ERROR_SCHEDULER == 2
ERROR_JOBDEF == 3

DefaultUrl == "http://cern.ch/atlas-panda-pilot/dask_script.py"

----------------------------------------------------------------------------
(* get_required_vars_dict *)

\* the dict "vars" of get_required_vars_dict: key -> environment variable
required_names == [host |-> "DASK_SCHEDULER_IP",
                   shared_disk |-> "DASK_SHARED_FILESYSTEM_PATH",
                   job_id |-> "PANDA_ID"]

\* a variant that also falls back to the default for an empty value
usercode_url_or_default(env) ==
    IF Truthy(Get(env, "DASK_USERCODE_URL", None))
    THEN env["DASK_USERCODE_URL"] ELSE DefaultUrl

\* required_vars['url'] = os.getenv('DASK_USERCODE_URL', default)
usercode_url(env) == Get(env, "DASK_USERCODE_URL", DefaultUrl)

get_required_vars_dict(env) ==
    LET added == {var \in DOMAIN required_names :
                     Truthy(Get(env, required_names[var], None))}
    IN [var \in added \cup {"url"} |->
           IF var = "url" THEN usercode_url(env) ELSE env[required_names[var]]]

----------------------------------------------------------------------------
(* setenv *)

\* a variant that replaces the environment by the given items
RECURSIVE setenv_replace(_, _)
setenv_replace(env, items) ==
    IF items = <<>>
    THEN [env |-> <<>>, raised |-> FALSE]
    ELSE LET r == setenv_replace(env, Tail(items))
         IN environ_setitem(r.env, Head(items)[1], Head(items)[2])

\* setenv(vars): vars is given as its items in iteration order, each
\* <<name, value>>; the loop stops at the first assignment that raises.
RECURSIVE setenv(_, _)
setenv(env, items) ==
    IF items = <<>>
    THEN [env |-> env, raised |-> FALSE]
    ELSE LET r == environ_setitem(env, Head(items)[1], Head(items)[2])
         IN IF r.raised THEN r ELSE setenv(r.env, Tail(items))

----------------------------------------------------------------------------
(* The driver process *)

ProcInit == [running |-> TRUE,       \* the process has not terminated
             status |-> 0,           \* process exit status once terminated
             uncaught |-> FALSE,     \* terminated by an uncaught exception
             loggingUp |-> FALSE,    \* logging is configured and not shut down
             finalLogged |-> FALSE,  \* 'Pilot X has finished with exit code'
             shutdowns |-> 0,        \* calls of shutdown()
             exitCalls |-> 0,        \* calls of exit()
             connects |-> 0,         \* Client(host) constructions
             fetches |-> 0,          \* execute('wget <url>') calls
             setenvs |-> 0]          \* setenv(vars) calls

\* an exception nobody catches: the interpreter prints the traceback and
\* the process ends with status 1, nothing after the raise runs
Uncaught(p) == [p EXCEPT !.running = FALSE, !.uncaught = TRUE, !.status = 1]

\* shutdown(): logging.shutdown()
shutdown(p) == [p EXCEPT !.loggingUp = FALSE, !.shutdowns = @ + 1]

\* exit(exit_code): log the final line, shut logging down, sys.exit
exit(p, exit_code) ==
    LET logged == [p EXCEPT !.exitCalls = @ + 1, !.finalLogged = TRUE]
    IN [shutdown(logged) EXCEPT !.running = FALSE, !.status = exit_code]

\* a variant that looks up the key get_required_vars_dict stores
shared_disk_key == "shared_disk"

\* the key under which __main__ looks the shared directory up (line 252)
shared_dir_key == "shared_dir"

\* a variant that exits only when every value is missing
AllMissing(host, url, job_id, shared_dir) ==
    ~Truthy(host) /\ ~Truthy(url) /\ ~Truthy(job_id) /\ ~Truthy(shared_dir)

\* line 253: not host or not url or not job_id or not shared_dir
AnyMissing(host, url, job_id, shared_dir) ==
    ~Truthy(host) \/ ~Truthy(url) \/ ~Truthy(job_id) \/ ~Truthy(shared_dir)

\* lines 257-298, the else branch: connect, fetch, re-export.
\* Returns the process and the environment when the branch is left.
connect_and_run(p, env, host, url, job_id, shared_dir) ==
    LET p1 == [p EXCEPT !.connects = @ + 1]
        p2 == [p1 EXCEPT !.fetches = @ + 1]
        p3 == [p2 EXCEPT !.setenvs = @ + 1]
        exported == setenv(env, << <<"DASK_SCHEDULER_IP", host>>,
                                   <<"DASK_SHARED_FILESYSTEM_PATH", shared_dir>>,
                                   <<"PANDA_ID", job_id>> >>)
    IN CASE scheduler = "raises" -> [p |-> Uncaught(p1), env |-> env]
         [] scheduler = "falsy"  -> [p |-> exit(p1, ERROR_SCHEDULER), env |-> env]
         [] wget = "nospawn"     -> [p |-> Uncaught(p2), env |-> env]
         [] exported.raised      -> [p |-> Uncaught(p3), env |-> exported.env]
         [] OTHER                -> [p |-> p3, env |-> exported.env]

\* lines 249-303: the lookups, the if/else and the trailing exit(0)
main_body(p, env, rv) ==
    LET host == Get(rv, "host", None)
        url == Get(rv, "url", None)
        job_id == Get(rv, "job_id", None)
        shared_dir == Get(rv, shared_dir_key, None)
        branch == IF AnyMissing(host, url, job_id, shared_dir)
                  THEN [p |-> exit(p, ERROR_UNSET_ENVVAR), env |-> env]
                  ELSE connect_and_run(p, env, host, url, job_id, shared_dir)
    IN IF branch.p.running
       THEN [p |-> exit(branch.p, 0), env |-> branch.env]
       ELSE branch

\* line 240 (and 241-245): establish_logging() opens pilotx.stdout in the
\* working directory; the open is not guarded
establish_logging ==
    /\ pc = "start"
    /\ IF logfile = "unwritable"
       THEN /\ proc' = Uncaught(proc)
            /\ pc' = "done"
       ELSE /\ proc' = [proc EXCEPT !.loggingUp = TRUE]
            /\ pc' = "logging_ready"
    /\ UNCHANGED <<environ, scheduler, wget, logfile, required_vars,
                   fs, handles, call, hist, envcall>>

\* line 248
discover_vars ==
    /\ pc = "logging_ready"
    /\ required_vars' = get_required_vars_dict(environ)
    /\ pc' = "vars_discovered"
    /\ UNCHANGED <<environ, scheduler, wget, logfile, proc,
                   fs, handles, call, hist, envcall>>

\* lines 249-303
run_main ==
    /\ pc = "vars_discovered"
    /\ LET r == main_body(proc, environ, required_vars)
       IN /\ proc' = r.p
          /\ environ' = r.env
    /\ pc' = "done"
    /\ UNCHANGED <<scheduler, wget, logfile, required_vars,
                   fs, handles, call, hist, envcall>>

----------------------------------------------------------------------------
(* open_file and write_file *)

\* the characters a file may hold
Chars == {1, 2}

\* contents of a file or of a write: sequences of characters of length <= n
RECURSIVE Strings(_)
Strings(n) ==
    IF n = 0 THEN {<<>>}
    ELSE LET shorter == Strings(n - 1)
         IN shorter \cup {Append(s, c) : s \in {t \in shorter : Len(t) = n - 1},
                                          c \in Chars}

Modes == {"w", "a"}

NoFile == ""        \* line 108: _file = ""
FileObj == "file"   \* the object open() returns

\* a variant that ignores the mode and always opens for writing
open_file_w(fsys, h, mode, openOk) ==
    IF openOk
    THEN [f |-> FileObj, fs |-> [exists |-> TRUE, content |-> <<>>],
          handles |-> h + 1, errors |-> 0, raised |-> FALSE]
    ELSE [f |-> NoFile, fs |-> fsys, handles |-> h, errors |-> 1, raised |-> FALSE]

\* open_file(filename, mode) on the file fsys with h handles open.
\* openOk says whether the builtin open succeeds; when it raises IOError
\* the file is untouched, the error is logged and "" is returned.
open_file(fsys, h, mode, openOk) ==
    IF openOk
    THEN [f |-> FileObj,
          fs |-> [exists |-> TRUE,
                  content |-> IF mode = "w" THEN <<>> ELSE fsys.content],
          handles |-> h + 1, errors |-> 0, raised |-> FALSE]
    ELSE [f |-> NoFile, fs |-> fsys, handles |-> h, errors |-> 1, raised |-> FALSE]

\* f.write(contents): on success the contents follow what the file holds;
\* when it raises IOError the first `partial` characters may have got there
file_write(fsys, contents, writeOk, partial) ==
    IF writeOk
    THEN [fs |-> [fsys EXCEPT !.content = @ \o contents], ioerror |-> FALSE]
    ELSE [fs |-> [fsys EXCEPT !.content = @ \o SubSeq(contents, 1, partial)],
          ioerror |-> TRUE]

\* a variant that sets status whatever the write did
status_always(ioerror) == TRUE

\* lines 137-143: status is set in the else clause of the try only
status_after_try(ioerror) == ~ioerror

\* a variant that closes in the else clause only
closes_in_else(ioerror) == IF ioerror THEN 0 ELSE 1

\* line 144: f.close() follows the try statement, whichever clause ran
closes_after_try(ioerror) == 1

\* lines 146-150: the messages logged at info level
info_messages(mute, status, mode) == IF ~mute /\ status THEN 1 ELSE 0

write_file(fsys, h, contents, mute, mode, openOk, writeOk, partial) ==
    LET o == open_file(fsys, h, mode, openOk)
    IN IF o.f /= NoFile
       THEN LET w == file_write(o.fs, contents, writeOk, partial)
                status == status_after_try(w.ioerror)
                closes == closes_after_try(w.ioerror)
            IN [status |-> status, fs |-> w.fs,
                handles |-> o.handles - closes,
                errors |-> o.errors + (IF w.ioerror THEN 1 ELSE 0),
                infos |-> info_messages(mute, status, mode),
                writes |-> 1, closes |-> closes, raised |-> o.raised]
       ELSE [status |-> FALSE, fs |-> o.fs, handles |-> o.handles,
             errors |-> o.errors, infos |-> info_messages(mute, FALSE, mode),
             writes |-> 0, closes |-> 0, raised |-> o.raised]

\* line 118: mute=True, the default the calls leave in place
MuteDefault == TRUE

\* one call of write_file on the path; the calls are recorded as long as
\* every one of them has returned True
write_file_call ==
    /\ pc = "idle"
    /\ ~envcall.made
    /\ hist.ncalls < MaxCalls
    /\ \E contents \in Strings(MaxContents), mode \in Modes, openOk \in BOOLEAN :
         \E writeOk \in IF openOk THEN BOOLEAN ELSE {FALSE} :
         \E partial \in IF writeOk THEN {Len(contents)} ELSE 0..Len(contents) :
            LET r == write_file(fs, handles, contents, MuteDefault, mode,
                                openOk, writeOk, partial)
            IN /\ fs' = r.fs
               /\ handles' = r.handles
               /\ call' = [made |-> TRUE, mode |-> mode, contents |-> contents,
                           openOk |-> openOk, writeOk |-> writeOk,
                           before |-> fs, result |-> r]
               /\ hist' = [hist EXCEPT
                             !.ncalls = @ + 1,
                             !.calls = IF hist.allOk /\ r.status
                                       THEN Append(@, [mode |-> mode,
                                                       contents |-> contents])
                                       ELSE <<>>,
                             !.allOk = @ /\ r.status]
    /\ UNCHANGED <<environ, scheduler, wget, logfile, pc, required_vars, proc,
                   envcall>>

----------------------------------------------------------------------------
(* setenv called on its own, once per process as in the driver (line 284) *)

\* the items of every dict of at most n entries, in every iteration order
RECURSIVE ItemSeqs(_)
ItemSeqs(n) ==
    IF n = 0 THEN {<<>>}
    ELSE LET shorter == ItemSeqs(n - 1)
         IN shorter \cup
            {Append(s, <<name, value>>) :
               s \in {t \in shorter : Len(t) = n - 1},
               name \in EnvNames, value \in Values}

DistinctKeys(items) ==
    \A i, j \in 1..Len(items) : items[i][1] = items[j][1] => i = j

setenv_call ==
    /\ pc = "idle"
    /\ ~call.made
    /\ ~envcall.made
    /\ \E items \in {s \in ItemSeqs(MaxVars) : DistinctKeys(s)} :
         LET r == setenv(environ, items)
         IN /\ environ' = r.env
            /\ envcall' = [made |-> TRUE, items |-> items, before |-> environ,
                           raised |-> r.raised]
    /\ UNCHANGED <<scheduler, wget, logfile, pc, required_vars, proc,
                   fs, handles, call, hist>>

----------------------------------------------------------------------------
(* Initial values of the variables a specification does not use *)

FileIdle == /\ fs = [exists |-> FALSE, content |-> <<>>]
            /\ handles = 0
            /\ call = [made |-> FALSE]
            /\ hist = [initial |-> fs, ncalls |-> 0, calls |-> <<>>, allOk |-> TRUE]

EnvIdle == envcall = [made |-> FALSE]

DriverIdle == /\ scheduler = "ok"
              /\ wget = "spawns"
              /\ logfile = "writable"
              /\ pc = "idle"
              /\ required_vars = <<>>
              /\ proc = ProcInit

----------------------------------------------------------------------------
(* Spec: one run of the driver from any environment *)

Init == /\ environ \in Dicts(EnvNames, Values)
        /\ scheduler \in {"ok", "falsy", "raises"}
        /\ wget \in {"spawns", "nospawn"}
        /\ logfile \in {"writable", "unwritable"}
        /\ pc = "start"
        /\ required_vars = <<>>
        /\ proc = ProcInit
        /\ FileIdle
        /\ EnvIdle

Next == \/ establish_logging
        \/ discover_vars
        \/ run_main

Spec == Init /\ [][Next]_vars

----------------------------------------------------------------------------
(* SpecFile: write_file called repeatedly on one path *)

InitFile == /\ environ = <<>>
            /\ DriverIdle
            /\ fs \in {[exists |-> FALSE, content |-> <<>>]} \cup
                      {[exists |-> TRUE, content |-> c] : c \in Strings(1)}
            /\ handles = 0
            /\ call = [made |-> FALSE]
            /\ hist = [initial |-> fs, ncalls |-> 0, calls |-> <<>>, allOk |-> TRUE]
            /\ EnvIdle

NextFile == write_file_call

SpecFile == InitFile /\ [][NextFile]_vars

----------------------------------------------------------------------------
(* SpecEnv: setenv called on any environment *)

InitEnv == /\ environ \in Dicts(EnvNames, Values)
           /\ DriverIdle
           /\ FileIdle
           /\ EnvIdle

NextEnv == setenv_call

SpecEnv == InitEnv /\ [][NextEnv]_vars

\* the driver always takes its next step: a sequential program
SpecLive == Spec /\ WF_vars(Next)

----------------------------------------------------------------------------
(* Properties of the driver, checked under Spec and SpecLive *)

RequiredEnv == {"DASK_SCHEDULER_IP", "DASK_SHARED_FILESYSTEM_PATH", "PANDA_ID"}

IsSet(name) == name \in DOMAIN environ

\* the three required variables are set, each to a non-empty value
AllRequiredGiven == \A name \in RequiredEnv : IsSet(name) /\ environ[name] /= ""

\* DASK_USERCODE_URL is unset (the default applies) or non-empty
UrlUsable == IsSet("DASK_USERCODE_URL") => environ["DASK_USERCODE_URL"] /= ""

\* C1: with the three required variables set, the scheduler reachable (and
\* the log file and wget available), a finished run has connected once,
\* has run the wget fetch and has exit status 0.
C1_ReachesFetchAndExits0 ==
    (/\ pc = "done"
     /\ AllRequiredGiven /\ UrlUsable
     /\ scheduler = "ok" /\ wget = "spawns" /\ logfile = "writable")
    => /\ proc.connects = 1
       /\ proc.fetches = 1
       /\ proc.status = 0

\* C2: whenever one of the three required variables is unset, the run
\* terminates, and with exit status 1 (ERROR_UNSET_ENVVAR), whatever the
\* other variables hold.
C2_UnsetExits1 ==
    (\E name \in RequiredEnv : ~IsSet(name))
    ~> (pc = "done" /\ ~proc.running /\ proc.status = ERROR_UNSET_ENVVAR)

C2_Witness ==
    /\ pc = "done"
    /\ ~IsSet("PANDA_ID")
    /\ IsSet("DASK_SCHEDULER_IP") /\ environ["DASK_SCHEDULER_IP"] /= ""
    /\ IsSet("DASK_SHARED_FILESYSTEM_PATH")
    /\ proc.exitCalls = 1
    /\ proc.status = ERROR_UNSET_ENVVAR

\* the dict has no keys but the four recognised ones, and 'url' is always
\* there: DASK_USERCODE_URL when that is set, the default URL otherwise
UrlAsClaimed ==
    /\ DOMAIN required_vars \subseteq DOMAIN required_names \cup {"url"}
    /\ "url" \in DOMAIN required_vars
    /\ required_vars["url"] = IF IsSet("DASK_USERCODE_URL")
                              THEN environ["DASK_USERCODE_URL"]
                              ELSE DefaultUrl

\* C3 as stated: right after get_required_vars_dict returns, 'host',
\* 'shared_disk' and 'job_id' are keys of the dict exactly when their
\* variable is set, each with the variable's value, and 'url' is as claimed.
C3_KeysExactlyForSetVars ==
    pc = "vars_discovered" =>
       /\ \A var \in DOMAIN required_names :
             /\ var \in DOMAIN required_vars <=> IsSet(required_names[var])
             /\ var \in DOMAIN required_vars
                   => required_vars[var] = environ[required_names[var]]
       /\ UrlAsClaimed

\* C3 amended: right after get_required_vars_dict returns, 'host',
\* 'shared_disk' and 'job_id' are keys of the dict exactly when their
\* variable is set to a non-empty value, each with the variable's value,
\* and 'url' is always present: DASK_USERCODE_URL when set (even to the
\* empty string), the default URL otherwise.
C3_KeysExactlyForNonEmptyVars ==
    pc = "vars_discovered" =>
       /\ \A var \in DOMAIN required_names :
             /\ var \in DOMAIN required_vars
                   <=> (IsSet(required_names[var]) /\ environ[required_names[var]] /= "")
             /\ var \in DOMAIN required_vars
                   => required_vars[var] = environ[required_names[var]]
       /\ UrlAsClaimed

C3_Witness ==
    /\ pc = "vars_discovered"
    /\ IsSet("DASK_SCHEDULER_IP") /\ environ["DASK_SCHEDULER_IP"] = ""
    /\ "host" \notin DOMAIN required_vars
    /\ ~IsSet("DASK_SHARED_FILESYSTEM_PATH")
    /\ "shared_disk" \notin DOMAIN required_vars
    /\ "job_id" \in DOMAIN required_vars
    /\ IsSet("DASK_USERCODE_URL") /\ required_vars["url"] = ""

\* C4: a run that has ended with exit status 1 has constructed no Client,
\* has fetched no user code and has not re-exported the environment.
C4_Exit1WithoutConnection ==
    (~proc.running /\ proc.status = 1)
    => /\ proc.connects = 0
       /\ proc.fetches = 0
       /\ proc.setenvs = 0

C4_Witness ==
    /\ pc = "done"
    /\ DOMAIN environ = {}
    /\ logfile = "writable"
    /\ ~proc.running /\ proc.status = 1
    /\ proc.connects = 0

\* C5: with the required variables present and the scheduler unreachable
\* (Client returns something unusable, or raises), a finished run has exit
\* status 2 (ERROR_SCHEDULER) and has attempted the connection at most once.
C5_UnreachableExits2 ==
    (/\ pc = "done"
     /\ AllRequiredGiven /\ UrlUsable
     /\ logfile = "writable"
     /\ scheduler \in {"falsy", "raises"})
    => /\ proc.status = ERROR_SCHEDULER
       /\ proc.connects <= 1

\* C6: every finished run went through exit() exactly once: the final
\* status line was logged, logging was shut down, and the process did not
\* end by an uncaught exception.
C6_SingleExitPath ==
    pc = "done" =>
       /\ proc.exitCalls = 1
       /\ proc.finalLogged
       /\ proc.shutdowns = 1 /\ ~proc.loggingUp
       /\ ~proc.uncaught

----------------------------------------------------------------------------
(* Properties of write_file, checked under SpecFile *)

LastW(calls) ==
    LET ws == {i \in 1..Len(calls) : calls[i].mode = "w"}
    IN IF ws = {} THEN 0 ELSE CHOOSE i \in ws : \A j \in ws : j <= i

\* the contents of calls[from..Len(calls)] one after the other
RECURSIVE ContentsFrom(_, _)
ContentsFrom(calls, from) ==
    IF from > Len(calls) THEN <<>>
    ELSE calls[from].contents \o ContentsFrom(calls, from + 1)

\* what the claim says the file holds after the calls
Expected(initial, calls) ==
    LET k == LastW(calls)
    IN IF k = 0 THEN initial.content \o ContentsFrom(calls, 1)
       ELSE ContentsFrom(calls, k)

\* C8: after a sequence of write_file calls that all returned True, the
\* file holds the contents of the calls since (and including) the last
\* one with mode 'w', in order; with no such call, what it held before
\* followed by the contents of all the calls.
C8_AppendAndTruncate ==
    (hist.allOk /\ hist.calls /= <<>>)
    => /\ fs.exists
       /\ fs.content = Expected(hist.initial, hist.calls)

C8_Witness ==
    /\ hist.allOk
    /\ Len(hist.calls) = 3
    /\ hist.initial.content /= <<>>
    /\ hist.calls[1].mode = "a" /\ hist.calls[1].contents /= <<>>
    /\ hist.calls[2].mode = "w" /\ hist.calls[2].contents /= <<>>
    /\ hist.calls[3].mode = "a" /\ hist.calls[3].contents /= <<>>
    /\ fs.content = hist.calls[2].contents \o hist.calls[3].contents

----------------------------------------------------------------------------
(* Properties of setenv, checked under SpecEnv *)

ItemKeys(items) == {items[i][1] : i \in 1..Len(items)}

\* C9: after setenv(m) with string values, the environment holds m's value
\* under every key of m, and every other name is set or unset as before,
\* with the value it had.
C9_SetenvRoundTrip ==
    envcall.made =>
       /\ ~envcall.raised
       /\ \A i \in 1..Len(envcall.items) :
             /\ envcall.items[i][1] \in DOMAIN environ
             /\ environ[envcall.items[i][1]] = envcall.items[i][2]
       /\ \A name \in EnvNames \ ItemKeys(envcall.items) :
             /\ name \in DOMAIN environ <=> name \in DOMAIN envcall.before
             /\ name \in DOMAIN environ => environ[name] = envcall.before[name]

C9_Witness ==
    /\ envcall.made
    /\ Len(envcall.items) = 2
    /\ envcall.items[1][1] = "PANDA_ID"
    /\ "PANDA_ID" \in DOMAIN envcall.before
    /\ envcall.before["PANDA_ID"] /= envcall.items[1][2]
    /\ envcall.items[2][1] = "DASK_SCHEDULER_IP"
    /\ "DASK_SCHEDULER_IP" \notin DOMAIN envcall.before
    /\ "DASK_USERCODE_URL" \in DOMAIN envcall.before
    /\ "DASK_USERCODE_URL" \in DOMAIN environ
    /\ environ["PANDA_ID"] = envcall.items[1][2]

====
